---- MODULE Spec2Model ----
(***************************************************************************)
(* Model of src/main.py: the scrape-classify-notify cycle of the bot.      *)
(*                                                                         *)
(*   TwitterScraper.get_recent_tweets  -> get_recent_tweets (operator)     *)
(*   check_network_connection,                                             *)
(*   is_buy_signal under @retry        -> IsBuySignalProbe, IsBuySignalPost*)
(*   check_influencers                 -> StartCycle .. Finally            *)
(*   main                              -> Main                             *)
(*                                                                         *)
(* Time is counted in half hours.  One invocation of check_influencers is  *)
(* modelled at a time.  Only exceptions deriving from Exception are        *)
(* modelled (no CancelledError, no KeyboardInterrupt).                     *)
(*                                                                         *)
(* Specifications:                                                         *)
(*   Spec            main, then cycle after cycle, every kind of failure   *)
(*   SpecFetch       one get_recent_tweets call, pages of every kind       *)
(*   SpecPage        one get_recent_tweets call, pages that read well      *)
(*   SpecClassifier  one is_buy_signal call, every response and exception  *)
(*   SpecRepeat      cycle after cycle with the history of alerts          *)
(*   SpecBudget      cycle after cycle with transient POST failures        *)
(*   SpecLive        one cycle under fairness, pages of up to six entries  *)
(***************************************************************************)
EXTENDS Integers, Sequences, FiniteSets, TLC

(* ------------------------------ bounds -------------------------------- *)
NumAccounts == 2        \* accounts of INFLUENCERS that are modelled
MaxClock == 3           \* the clock stops advancing here
MaxPageLen == 2         \* longest timeline a cycle's page load shows
MaxTimelineLen == 6     \* longest timeline in the fetcher-only specification

(* ------------------------- program constants -------------------------- *)
PageLimit == 5          \* find_elements(...)[:5]
OneHour == 2            \* timedelta(hours=1), in half hours
StopAfterAttempt == 2   \* stop_after_attempt(2)
WaitMultiplier == 1     \* wait_exponential(multiplier=1, ...)
WaitMin == 2            \* wait_exponential(min=2)
WaitMax == 15           \* wait_exponential(max=15)
Interval == 2           \* run_repeating(interval=3600), in half hours
First == 0              \* run_repeating(first=10): within the first half hour

INFLUENCERS == [k \in 1..NumAccounts |-> k]

required_vars == {"TELEGRAM_BOT_TOKEN", "HF_API_TOKEN", "GROUP_CHAT_ID"}

VARIABLES
  env,            \* which of required_vars are set in the environment
  app,            \* main: "init", "polling" (job registered) or "exited"
  clock,          \* datetime.now(timezone.utc)
  pc,             \* position of check_influencers
  scraper,        \* the cycle's TwitterScraper: "none", "open" or "closed"
  driver,         \* self.driver of that scraper: id counts the sessions
                  \* webdriver.Chrome has created, quit is the latest id
                  \* driver.quit() was called on
  timeline,       \* .timeline-item elements of the page the driver shows
  acct,           \* index into INFLUENCERS of the account being checked
  nav,            \* "none", "ok" or "error": did this account's page load raise
  cutoff_time,    \* cutoff the last get_recent_tweets call computed
  tweets,         \* list returned by get_recent_tweets for that account
  item,           \* index into tweets of the tweet being processed
  attempt_number, \* tenacity's attempt number within one is_buy_signal call
  probe,          \* "none", "connected" or "failed": open_connection in
                  \* this attempt
  response,       \* what the last client.post gave (None, a response, a raise)
  raised,         \* exceptions the attempts of this call have raised
  backoff,        \* waits tenacity slept between the attempts of this call
  posts,          \* client.post calls made for this call
  verdicts,       \* per tweet of this account: "true", "false" or "raised"
  sent,           \* indices of the tweets send_message was called for
  fetchLog,       \* handles get_recent_tweets was called with, this cycle
  closeCalls,     \* scraper.close() calls, this cycle
  errors,         \* logger.error messages of the scraper and of
                  \* check_influencers in this cycle, by their prefix
  lastExit,       \* how the last check_influencers ended
  nextRun,        \* job queue: the earliest time of the job's next run
  lastAlert       \* history, kept where cycles are compared: the latest
                  \* tweet send_message was called for that a later cycle
                  \* can still find inside its window, and the cycles that
                  \* alerted it ("this", "earlier", "both")

vars == <<env, app, clock, pc, scraper, driver, timeline, acct, nav, cutoff_time,
          tweets, item,
          attempt_number, probe, response, raised, backoff, posts,
          verdicts, sent, fetchLog, closeCalls, errors, lastExit,
          nextRun, lastAlert>>

None == [type |-> "none"]

NoAlert == [handle |-> 0, id |-> 0, time |-> 0, cycle |-> "none"]
NotKept == [handle |-> 0, id |-> 0, time |-> 0, cycle |-> "not kept"]

(* --------------------------- page entries ----------------------------- *)
\* A timeline item is described by the first thing that goes wrong when
\* lines 95-103 read it:
\*   "no_element"  .tweet-content, a.tweet-link or .tweet-date a is absent
\*   "no_attr"     href or title attribute is absent (get_attribute -> None)
\*   "no_marker"   the href has no "/status/" part
\*   "bad_time"    the title does not match the strptime format
\*   "stale"       the driver fails on the element (it left the DOM, the
\*                 session died): another WebDriverException
\*   "ok"          all of it reads; id and time are what was extracted
MalformedKinds == {"no_element", "bad_time", "no_marker", "no_attr", "stale"}

Malformed(k) == [kind |-> k, id |-> 0, time |-> 0]

\* A well-formed entry posted at t; its id is taken to be its post time.
OkEntry(t) == [kind |-> "ok", id |-> t, time |-> t]

\* Entries a page read at time now is built from in a whole cycle: posted
\* before the cutoff, at it, after it, or malformed (once skipped, once not).
PageEntries(now) ==
  {OkEntry(t) : t \in (now - OneHour - 1)..now}
    \cup {Malformed("no_element"), Malformed("no_marker")}

\* Entries of the fetcher-only specification: posted at the cutoff or after
\* it, or failing in any of the ways.
TimelineEntries(now) ==
  {OkEntry(t) : t \in (now - OneHour)..(now - OneHour + 1)}
    \cup {Malformed(k) : k \in MalformedKinds}

FetchClock == OneHour + 1

(* ------------------- TwitterScraper.get_recent_tweets ----------------- *)
\* The exception reading one timeline item raises, "none" if it reads.
Raises(tweet) ==
  CASE tweet.kind = "ok"         -> "none"
    [] tweet.kind = "no_element" -> "NoSuchElementException"
    [] tweet.kind = "bad_time"   -> "ValueError"
    [] tweet.kind = "no_marker"  -> "IndexError"
    [] tweet.kind = "no_attr"    -> "AttributeError"
    [] tweet.kind = "stale"      -> "WebDriverException"

\* Variants of Skipped: a handler that catches everything; a handler that
\* catches NoSuchElementException only.
Skipped_any(exc) == exc # "none"
Skipped_element_only(exc) == exc = "NoSuchElementException"

\* except (NoSuchElementException, ValueError): continue
Skipped(exc) == exc \in {"NoSuchElementException", "ValueError"}

\* Variant of InWindow: the cutoff itself counts as recent.
InWindow_inclusive(tweet_time, cutoff) == tweet_time >= cutoff

\* if tweet_time > cutoff_time
InWindow(tweet_time, cutoff) == tweet_time > cutoff

\* Variant of FirstN: the slice is missing.
FirstN_all(s, n) == s

\* [:5]
FirstN(s, n) == IF Len(s) <= n THEN s ELSE SubSeq(s, 1, n)

\* The for loop over tweet_elements.  An exception the inner handler does
\* not catch leaves the loop; the list built so far stays in tweets.
RECURSIVE ExtractLoop(_, _, _, _)
ExtractLoop(tweet_elements, handle, cutoff, acc) ==
  IF tweet_elements = <<>> THEN [tweets |-> acc, error |-> FALSE]
  ELSE LET tweet == Head(tweet_elements)
           exc == Raises(tweet)
       IN  IF exc = "none"
           THEN ExtractLoop(Tail(tweet_elements), handle, cutoff,
                  IF InWindow(tweet.time, cutoff)
                  THEN Append(acc, [id |-> tweet.id, handle |-> handle,
                                    time |-> tweet.time])
                  ELSE acc)
           ELSE IF Skipped(exc)
           THEN ExtractLoop(Tail(tweet_elements), handle, cutoff, acc)
           ELSE [tweets |-> acc, error |-> TRUE]

\* navOk: driver.get and find_elements did not raise.  The result is the
\* list returned, with whether line 119 logged a "Scraping error" and the
\* cutoff line 84 computed.
get_recent_tweets(handle, navOk, page, now) ==
  LET cutoff == now - OneHour IN
  LET res == IF navOk
             THEN ExtractLoop(FirstN(page, PageLimit), handle, cutoff, <<>>)
             ELSE [tweets |-> <<>>, error |-> TRUE]
  IN  [tweets |-> res.tweets, error |-> res.error, cutoff_time |-> cutoff]

(* ------------------------- inference endpoint ------------------------- *)
\* generated_text values, as sequences of characters.
Texts == { <<"Y", "E", "S">>, <<" ", "y", "e", "s", " ">>, <<"n", "o">>,
           <<"Y", "E", "S", ".">>, <<"Y", "e", "s", "\n">>,
           <<"y", " ", "e", "s">> }

\* Elements of a JSON list: a dict with a string generated_text ("text"),
\* a dict without that key ("no_key"), a dict whose generated_text is not
\* a string ("non_str"), something that is not a dict ("non_dict").
Elem(k, t) == [kind |-> k, text |-> t]
Elems == {Elem("text", t) : t \in Texts}
           \cup {Elem("no_key", <<>>), Elem("non_str", <<>>), Elem("non_dict", <<>>)}

\* Bodies: not JSON at all, a JSON object, a JSON list.
Body(shape, items) == [shape |-> shape, items |-> items]
Bodies == {Body("not_json", <<>>), Body("dict", <<>>), Body("list", <<>>)}
            \cup {Body("list", <<e>>) : e \in Elems}
            \cup {Body("list", <<Elem("text", <<"n", "o">>), Elem("text", <<"Y", "E", "S">>)>>),
                  Body("list", <<Elem("text", <<"Y", "E", "S">>), Elem("non_dict", <<>>)>>)}

Statuses == {200, 401, 404, 500}

\* What client.post can raise: three httpx.RequestError subclasses and one
\* exception that is not a RequestError.
Exceptions == {"ConnectError", "TimeoutException", "ReadError", "InvalidURL"}

Response(status, body) ==
  [type |-> "response", status |-> status, body |-> body, exc |-> "none"]
Raise(exc) ==
  [type |-> "raise", status |-> 0, body |-> Body("none", <<>>), exc |-> exc]

PostOutcomes ==
  {Response(st, b) : st \in Statuses, b \in Bodies} \cup {Raise(e) : e \in Exceptions}

\* The outcomes a whole cycle is explored with: one per way is_buy_signal
\* can end.
CycleOutcomes ==
  {Response(200, Body("list", <<Elem("text", <<" ", "y", "e", "s", " ">>)>>)),
   Response(200, Body("list", <<Elem("text", <<"n", "o">>)>>)),
   Response(401, Body("dict", <<>>))} \cup {Raise(e) : e \in Exceptions}

(* ----------------------------- str methods ---------------------------- *)
IsSpace(c) == c \in {" ", "\t", "\n"}

UpperChar(c) ==
  CASE c = "y" -> "Y" [] c = "e" -> "E" [] c = "s" -> "S"
    [] c = "n" -> "N" [] c = "o" -> "O" [] OTHER -> c

upper(s) == [k \in 1..Len(s) |-> UpperChar(s[k])]

RECURSIVE lstrip(_)
lstrip(s) == IF s # <<>> /\ IsSpace(Head(s)) THEN lstrip(Tail(s)) ELSE s

RECURSIVE rstrip(_)
rstrip(s) ==
  IF s # <<>> /\ IsSpace(s[Len(s)]) THEN rstrip(SubSeq(s, 1, Len(s) - 1)) ELSE s

\* Variant of strip: only leading whitespace is removed.
strip_leading(s) == lstrip(s)

strip(s) == rstrip(lstrip(s))

(* ----------------------------- is_buy_signal -------------------------- *)
Return(v) == [kind |-> "return", value |-> v, exc |-> "none"]
Throw(e) == [kind |-> "raise", value |-> FALSE, exc |-> e]

\* Lines 177-193: what the body of the try block does with a response.
\* Exceptions of response.json(), result[0].get and .strip are raised here.
HandleResponse(r) ==
  IF r.status = 200
  THEN IF r.body.shape = "not_json" THEN Throw("JSONDecodeError")
       ELSE IF r.body.shape # "list" \/ Len(r.body.items) = 0 THEN Return(FALSE)
       ELSE LET first == r.body.items[1] IN
            IF first.kind \in {"non_dict", "non_str"} THEN Throw("AttributeError")
            ELSE LET generated == IF first.kind = "text" THEN first.text ELSE <<>>
                     answer == upper(strip(generated))
                 IN  Return(answer = <<"Y", "E", "S">>)
  ELSE Return(FALSE)

\* httpx.RequestError and the subclasses of it that are modelled.
IsRequestError(exc) == exc \in {"ConnectError", "TimeoutException", "ReadError"}

\* Lines 195-200: except httpx.RequestError: raise / except Exception: False
TryExcept(res) ==
  IF res.kind = "raise"
  THEN IF IsRequestError(res.exc) THEN res ELSE Return(FALSE)
  ELSE res

\* One attempt of is_buy_signal whose probe succeeded, given what
\* client.post gave.
is_buy_signal(outcome) ==
  TryExcept(IF outcome.type = "raise" THEN Throw(outcome.exc)
            ELSE HandleResponse(outcome))

(* -------------------------------- @retry ------------------------------ *)
\* Variant of RetryIf: every httpx.RequestError is retried.
RetryIf_request_error(exc) == IsRequestError(exc)

\* retry_if_exception_type((httpx.ConnectError, httpx.TimeoutException))
RetryIf(exc) == exc \in {"ConnectError", "TimeoutException"}

\* Variants of Stop: no stop condition; a failure logged earlier in the
\* cycle has used up the attempts.
Stop_never(n) == FALSE
Stop_shared(n) == n >= StopAfterAttempt \/ "Processing error" \in errors

\* stop_after_attempt(2)
Stop(n) == n >= StopAfterAttempt

Max(a, b) == IF a >= b THEN a ELSE b
Min(a, b) == IF a <= b THEN a ELSE b

\* wait_exponential(multiplier=1, min=2, max=15) after attempt n
wait_exponential(n) ==
  Max(Max(0, WaitMin), Min(WaitMultiplier * (2 ^ (n - 1)), WaitMax))

(* --------------------------- check_influencers ------------------------ *)
Pos(p, a, j) == [pc |-> p, acct |-> a, item |-> j]

\* for handle, name in INFLUENCERS: the next account, or the finally block
NextAccount(a) ==
  IF a < NumAccounts THEN Pos("fetch", a + 1, 0) ELSE Pos("finally", a, 0)

\* for tweet in tweets: the next tweet, or back to the loop over accounts
NextItem(a, j, n) ==
  IF j < n THEN Pos("classify", a, j + 1) ELSE Pos("next", a, 0)

\* Variant of AfterScrape: an account without tweets ends the loop.
AfterScrape_break(a, result) ==
  IF result = <<>> THEN Pos("finally", a, 0) ELSE Pos("classify", a, 1)

\* if not tweets: continue
AfterScrape(a, result) ==
  IF result = <<>> THEN Pos("next", a, 0) ELSE Pos("classify", a, 1)

\* Variant of ExceptHandler: the handler sits around the loop over tweets.
ExceptHandler_outside_loop(a, j, n) == Pos("next", a, 0)

\* except Exception as e (line 233): log, go on with the next tweet
ExceptHandler(a, j, n) == NextItem(a, j, n)

callVars == <<attempt_number, probe, response, raised, backoff, posts>>
acctVars == <<timeline, nav, cutoff_time, tweets, verdicts, sent>>

ResetCall ==
  /\ attempt_number' = 0
  /\ probe' = "none"
  /\ response' = None
  /\ raised' = <<>>
  /\ backoff' = <<>>
  /\ posts' = 0

ResetAccount ==
  /\ timeline' = <<>>
  /\ nav' = "none"
  /\ cutoff_time' = 0
  /\ tweets' = <<>>
  /\ verdicts' = <<>>
  /\ sent' = <<>>

Goto(p) ==
  /\ pc' = p.pc
  /\ acct' = p.acct
  /\ item' = p.item

\* TwitterScraper.__init__ (lines 61-79): webdriver.Chrome starts a new
\* browser session for self.driver, or raises.
NoDriver == [id |-> 0, quit |-> 0]

\* Variant of TwitterScraper: one scraper is created and then shared.
TwitterScraper_shared(d, initOk) ==
  IF initOk /\ d.id = 0 THEN [d EXCEPT !.id = 1] ELSE d

TwitterScraper(d, initOk) == IF initOk THEN [d EXCEPT !.id = @ + 1] ELSE d

\* The session of self.driver exists and driver.quit() was not called on it.
Live(d) == d.id > d.quit

(* -------------------------------- Init -------------------------------- *)
Init ==
  /\ env \in [required_vars -> BOOLEAN]
  /\ app = "init"
  /\ clock = 0
  /\ pc = "idle"
  /\ scraper = "none"
  /\ driver = NoDriver
  /\ timeline = <<>>
  /\ acct = 0
  /\ nav = "none"
  /\ cutoff_time = 0
  /\ tweets = <<>>
  /\ item = 0
  /\ attempt_number = 0
  /\ probe = "none"
  /\ response = None
  /\ raised = <<>>
  /\ backoff = <<>>
  /\ posts = 0
  /\ verdicts = <<>>
  /\ sent = <<>>
  /\ fetchLog = <<>>
  /\ closeCalls = 0
  /\ errors = {}
  /\ lastExit = "none"
  /\ nextRun = 0
  /\ lastAlert = NotKept

(* -------------------------------- main -------------------------------- *)
\* Variant of missing_vars: only the bot token is looked for.
missing_vars_token_only(environ) ==
  {v \in {"TELEGRAM_BOT_TOKEN"} : ~environ[v]}

\* [var for var in required_vars if not os.getenv(var)]
missing_vars(environ) == {v \in required_vars : ~environ[v]}

\* buildOk: ApplicationBuilder().build() .. run_repeating did not raise.
Main ==
  /\ app = "init"
  /\ IF missing_vars(env) # {}
     THEN app' = "exited" /\ UNCHANGED nextRun
     ELSE \E buildOk \in BOOLEAN :
            /\ app' = IF buildOk THEN "polling" ELSE "exited"
            /\ nextRun' = IF buildOk THEN clock + First ELSE nextRun
  /\ UNCHANGED <<env, driver, lastAlert, clock, pc, scraper, acct, item,
                 acctVars, callVars, fetchLog, closeCalls, errors, lastExit>>

\* The clock is read by get_recent_tweets only; its advance is shown
\* between accounts and, while the job waits for its next run, between
\* cycles.  A run that is due starts before more time passes.
Tick ==
  /\ app = "polling"
  /\ pc = "fetch" \/ (pc = "idle" /\ clock < nextRun)
  /\ clock < MaxClock
  /\ clock' = clock + 1
  /\ UNCHANGED <<env, driver, nextRun, lastAlert, app, pc, scraper, acct,
                 item, acctVars, callVars, fetchLog, closeCalls, errors,
                 lastExit>>

(* --------------------- check_influencers, step by step ---------------- *)
\* Lines 206-207.  TwitterScraper() is outside the try statement and its
\* __init__ re-raises what webdriver.Chrome raised.  The job queue calls
\* check_influencers when a run is due and sets the next run one interval
\* later (line 252).
StartCycle ==
  /\ app = "polling"
  /\ pc = "idle"
  /\ clock >= nextRun
  /\ nextRun' = clock + Interval
  /\ \E initOk \in BOOLEAN :
       /\ driver' = TwitterScraper(driver, initOk)
       /\ IF initOk
          THEN /\ scraper' = "open"
               /\ Goto(Pos("next", 0, 0))
               /\ lastExit' = "running"
               /\ errors' = {}
          ELSE /\ scraper' = "none"
               /\ Goto(Pos("idle", 0, 0))
               /\ lastExit' = "raised"
               /\ errors' = {"WebDriver init failed"}
  /\ fetchLog' = <<>>
  /\ closeCalls' = 0
  /\ ResetAccount
  /\ ResetCall
  /\ UNCHANGED <<env, lastAlert, app, clock>>

\* Lines 210-211: the loop over INFLUENCERS takes the next account or ends.
\* What the finished account left behind is not read again.
LoopHeader ==
  /\ pc = "next"
  /\ Goto(NextAccount(acct))
  /\ ResetAccount
  /\ ResetCall
  /\ UNCHANGED <<env, driver, nextRun, lastAlert, app, clock, scraper,
                 fetchLog, closeCalls, errors, lastExit>>

\* Line 212 and lines 214-216: scrape the account, skip it if nothing came.
\* driver.get raises on a session that was quit.
Scrape(entries, maxLen) ==
  /\ pc = "fetch"
  /\ \E navOk \in (IF Live(driver) THEN BOOLEAN ELSE {FALSE}) : \E n \in 0..(IF navOk THEN maxLen ELSE 0) :
     \E page \in [1..n -> entries] :
       LET result == get_recent_tweets(INFLUENCERS[acct], navOk, page, clock) IN
       /\ timeline' = page
       /\ nav' = IF navOk THEN "ok" ELSE "error"
       /\ tweets' = result.tweets
       /\ errors' = IF result.error THEN errors \cup {"Scraping error"} ELSE errors
       /\ cutoff_time' = result.cutoff_time
       /\ Goto(AfterScrape(acct, result.tweets))
  /\ fetchLog' = Append(fetchLog, INFLUENCERS[acct])
  /\ verdicts' = <<>>
  /\ sent' = <<>>
  /\ ResetCall
  /\ UNCHANGED <<env, driver, nextRun, lastAlert, app, clock, scraper,
                 closeCalls, lastExit>>

ScrapeAccount == Scrape(PageEntries(clock), MaxPageLen)

\* Variant of check_network_connection: the failure is logged, True returned.
check_network_connection_true(connected) == TRUE

\* check_network_connection: True when asyncio.open_connection connected,
\* False when it raised socket.gaierror or OSError.
check_network_connection(connected) == connected

\* Line 222 up to line 159: an attempt starts (the first, or tenacity's
\* retry) and awaits check_network_connection.  if not ...: return False
IsBuySignalProbe ==
  /\ pc \in {"classify", "retry"}
  /\ attempt_number' = IF pc = "classify" THEN 1 ELSE attempt_number + 1
  /\ response' = None
  /\ \E connected \in BOOLEAN :
       /\ probe' = IF connected THEN "connected" ELSE "failed"
       /\ IF check_network_connection(connected)
          THEN /\ Goto(Pos("post", acct, item))
               /\ UNCHANGED verdicts
          ELSE /\ Goto(Pos("classified", acct, item))
               /\ verdicts' = Append(verdicts, "false")
  /\ UNCHANGED <<env, driver, nextRun, lastAlert, app, clock, scraper,
                 timeline, nav, cutoff_time, tweets, raised, backoff, posts,
                 sent, fetchLog, closeCalls, errors, lastExit>>

\* Lines 161-200 and the retry decision of lines 152-156.
Post(outcomes) ==
  /\ pc = "post"
  /\ \E outcome \in outcomes :
       LET res == is_buy_signal(outcome) IN
       /\ response' = outcome
       /\ posts' = posts + 1
       /\ IF res.kind = "return"
          THEN /\ verdicts' = Append(verdicts, IF res.value THEN "true" ELSE "false")
               /\ Goto(Pos("classified", acct, item))
               /\ UNCHANGED <<raised, backoff>>
          ELSE /\ raised' = Append(raised, res.exc)
               /\ IF RetryIf(res.exc) /\ ~Stop(attempt_number)
                  THEN /\ backoff' = Append(backoff, wait_exponential(attempt_number))
                       /\ Goto(Pos("retry", acct, item))
                       /\ UNCHANGED verdicts
                  ELSE /\ verdicts' = Append(verdicts, "raised")
                       /\ Goto(Pos("except", acct, item))
                       /\ UNCHANGED backoff
  /\ UNCHANGED <<env, driver, nextRun, lastAlert, app, clock, scraper,
                 timeline, nav, cutoff_time, tweets, attempt_number, probe,
                 sent, fetchLog, closeCalls, errors, lastExit>>

IsBuySignalPost == Post(CycleOutcomes)

\* Lines 223-224: if is_buy, build and send the alert.
\* Variant of AfterClassified: the alert is sent whatever is_buy is.
AfterClassified_always(is_buy, a, j, n) == Pos("send", a, j)

\* Variant of AfterClassified: a tweet alerted in an earlier cycle is not
\* alerted again.
AfterClassified_once(is_buy, a, j, n) ==
  IF is_buy /\ ~(/\ lastAlert.cycle \in {"earlier", "both"}
                 /\ lastAlert.handle = tweets[j].handle
                 /\ lastAlert.id = tweets[j].id)
  THEN Pos("send", a, j) ELSE NextItem(a, j, n)

\* if is_buy: ... send_message, else on to the next tweet
AfterClassified(is_buy, a, j, n) ==
  IF is_buy THEN Pos("send", a, j) ELSE NextItem(a, j, n)

Classified ==
  /\ pc = "classified"
  /\ Goto(AfterClassified(verdicts[item] = "true", acct, item, Len(tweets)))
  /\ ResetCall
  /\ UNCHANGED <<env, driver, nextRun, lastAlert, app, clock, scraper,
                 acctVars, fetchLog, closeCalls, errors, lastExit>>

\* No run after this one can have tweet_time inside its window: the next
\* run computes its cutoffs at next_run or later.
Expired(tweet_time, next_run) == tweet_time <= next_run - OneHour

\* The history after send_message was called for tweet: an alert of an
\* earlier cycle for the same handle and id makes it an alert of both.
Alert(tweet, last, next_run) ==
  IF last = NotKept THEN last
  ELSE IF /\ last.cycle \in {"earlier", "both"}
          /\ last.handle = tweet.handle
          /\ last.id = tweet.id
  THEN [last EXCEPT !.cycle = "both"]
  ELSE IF Expired(tweet.time, next_run) THEN last
  ELSE [handle |-> tweet.handle, id |-> tweet.id, time |-> tweet.time,
        cycle |-> "this"]

\* The history when the cycle ends.
EndOfCycle(last, next_run) ==
  IF last = NotKept THEN last
  ELSE IF last.cycle = "none" \/ Expired(last.time, next_run) THEN NoAlert
  ELSE [last EXCEPT !.cycle = "earlier"]

\* Line 231: send_message is called; it delivers or raises.
SendMessage ==
  /\ pc = "send"
  /\ sent' = Append(sent, item)
  /\ lastAlert' = Alert(tweets[item], lastAlert, nextRun)
  /\ \E delivered \in BOOLEAN :
       IF delivered
       THEN Goto(NextItem(acct, item, Len(tweets)))
       ELSE Goto(Pos("except", acct, item))
  /\ UNCHANGED <<env, driver, nextRun, app, clock, scraper, timeline, nav,
                 cutoff_time, tweets, verdicts, callVars, fetchLog,
                 closeCalls, errors, lastExit>>

\* Lines 233-234: the handler around one tweet.
Except ==
  /\ pc = "except"
  /\ Goto(ExceptHandler(acct, item, Len(tweets)))
  /\ errors' = errors \cup {"Processing error"}
  /\ ResetCall
  /\ UNCHANGED <<env, driver, nextRun, lastAlert, app, clock, scraper,
                 acctVars, fetchLog, closeCalls, lastExit>>

\* Variants of close: the exception of quit is raised; quit is tried again.
close_raising(quitOk) == [calls |-> 1, raises |-> ~quitOk, logged |-> ~quitOk]
close_retrying(quitOk) ==
  [calls |-> IF quitOk THEN 1 ELSE 2, raises |-> FALSE, logged |-> ~quitOk]

\* TwitterScraper.close: driver.quit() is called once; an exception of it
\* is logged as "Close error" and not raised.
close(quitOk) == [calls |-> 1, raises |-> FALSE, logged |-> ~quitOk]

\* Lines 238-240: the finally block.
Finally ==
  /\ pc = "finally"
  /\ \E quitOk \in BOOLEAN :
       LET c == close(quitOk) IN
       /\ closeCalls' = closeCalls + c.calls
       /\ scraper' = IF c.calls > 0 THEN "closed" ELSE scraper
       /\ driver' = IF c.calls > 0 THEN [driver EXCEPT !.quit = driver.id]
                    ELSE driver
       /\ lastExit' = IF c.raises THEN "raised" ELSE "returned"
       /\ errors' = IF c.logged THEN errors \cup {"Close error"} ELSE errors
  /\ Goto(Pos("idle", acct, 0))
  /\ lastAlert' = EndOfCycle(lastAlert, nextRun)
  /\ UNCHANGED <<env, nextRun, app, clock, acctVars, callVars, fetchLog>>

Next ==
  \/ Main
  \/ Tick
  \/ StartCycle
  \/ LoopHeader
  \/ ScrapeAccount
  \/ IsBuySignalProbe
  \/ IsBuySignalPost
  \/ Classified
  \/ SendMessage
  \/ Except
  \/ Finally

Spec == Init /\ [][Next]_vars

(* ----------------- get_recent_tweets on its own ----------------------- *)
\* A cycle that is about to scrape its first account.
InitFetch ==
  /\ env = [v \in required_vars |-> TRUE]
  /\ app = "polling"
  /\ clock = FetchClock
  /\ pc = "fetch"
  /\ scraper = "open"
  /\ driver = TwitterScraper(NoDriver, TRUE)
  /\ timeline = <<>>
  /\ acct = 1
  /\ nav = "none"
  /\ cutoff_time = 0
  /\ tweets = <<>>
  /\ item = 0
  /\ attempt_number = 0
  /\ probe = "none"
  /\ response = None
  /\ raised = <<>>
  /\ backoff = <<>>
  /\ posts = 0
  /\ verdicts = <<>>
  /\ sent = <<>>
  /\ fetchLog = <<>>
  /\ closeCalls = 0
  /\ errors = {}
  /\ lastExit = "running"
  /\ nextRun = FetchClock + Interval
  /\ lastAlert = NotKept

ScrapeTimeline == Scrape(TimelineEntries(clock), MaxTimelineLen)

NextFetch == ScrapeTimeline

SpecFetch == InitFetch /\ [][NextFetch]_vars

(* ------------- get_recent_tweets on pages that read well -------------- *)
\* Entries posted at the cutoff and at the two times after it, and entries
\* the loop skips.
OrderedEntries(now) ==
  {OkEntry(t) : t \in (now - OneHour)..now} \cup {Malformed("no_element")}

ScrapePage == Scrape(OrderedEntries(clock), MaxTimelineLen)

NextPage == ScrapePage

SpecPage == InitFetch /\ [][NextPage]_vars

(* -------------------- is_buy_signal on its own ------------------------ *)
\* A cycle that is about to classify the only tweet of its first account.
InitClassifier ==
  /\ env = [v \in required_vars |-> TRUE]
  /\ app = "polling"
  /\ clock = FetchClock
  /\ pc = "classify"
  /\ scraper = "open"
  /\ driver = TwitterScraper(NoDriver, TRUE)
  /\ timeline = <<OkEntry(FetchClock)>>
  /\ acct = 1
  /\ nav = "ok"
  /\ cutoff_time = FetchClock - OneHour
  /\ tweets = <<[id |-> FetchClock, handle |-> INFLUENCERS[1], time |-> FetchClock]>>
  /\ item = 1
  /\ attempt_number = 0
  /\ probe = "none"
  /\ response = None
  /\ raised = <<>>
  /\ backoff = <<>>
  /\ posts = 0
  /\ verdicts = <<>>
  /\ sent = <<>>
  /\ fetchLog = <<INFLUENCERS[1]>>
  /\ closeCalls = 0
  /\ errors = {}
  /\ lastExit = "running"
  /\ nextRun = FetchClock + Interval
  /\ lastAlert = NotKept

IsBuySignalPostAny == Post(PostOutcomes)

NextClassifier ==
  \/ IsBuySignalProbe
  \/ IsBuySignalPostAny

SpecClassifier == InitClassifier /\ [][NextClassifier]_vars

(* ------------------------- cycle after cycle -------------------------- *)
\* The job is registered; the alerts of a cycle are kept for the next one
\* to be compared with.  Pages show well-formed entries posted at the
\* cutoff or after it; the endpoint answers yes or no.
Registered(now, history) ==
  /\ env = [v \in required_vars |-> TRUE]
  /\ app = "polling"
  /\ clock = now
  /\ pc = "idle"
  /\ scraper = "none"
  /\ driver = NoDriver
  /\ timeline = <<>>
  /\ acct = 0
  /\ nav = "none"
  /\ cutoff_time = 0
  /\ tweets = <<>>
  /\ item = 0
  /\ attempt_number = 0
  /\ probe = "none"
  /\ response = None
  /\ raised = <<>>
  /\ backoff = <<>>
  /\ posts = 0
  /\ verdicts = <<>>
  /\ sent = <<>>
  /\ fetchLog = <<>>
  /\ closeCalls = 0
  /\ errors = {}
  /\ lastExit = "none"
  /\ nextRun = First
  /\ lastAlert = history

InitRepeat == Registered(0, NoAlert)

RecentEntries(now) == {OkEntry(t) : t \in (now - OneHour)..now}

ScrapeRecent == Scrape(RecentEntries(clock), MaxPageLen)

Answers ==
  {Response(200, Body("list", <<Elem("text", <<"Y", "E", "S">>)>>)),
   Response(200, Body("list", <<Elem("text", <<"n", "o">>)>>))}

IsBuySignalAnswer == Post(Answers)

NextRepeat ==
  \/ Tick
  \/ StartCycle
  \/ LoopHeader
  \/ ScrapeRecent
  \/ IsBuySignalProbe
  \/ IsBuySignalAnswer
  \/ Classified
  \/ SendMessage
  \/ Except
  \/ Finally

SpecRepeat == InitRepeat /\ [][NextRepeat]_vars

(* ------------------- transient failures, call after call -------------- *)
\* The job is registered.  Pages show recent entries; the endpoint
\* answers yes or no or the POST fails in one of the two retried ways.
InitBudget == Registered(0, NotKept)

TransientOutcomes ==
  Answers \cup {Raise("ConnectError"), Raise("TimeoutException")}

IsBuySignalTransient == Post(TransientOutcomes)

ScrapeNow == Scrape({OkEntry(clock)}, MaxPageLen)

NextBudget ==
  \/ Tick
  \/ StartCycle
  \/ LoopHeader
  \/ ScrapeNow
  \/ IsBuySignalProbe
  \/ IsBuySignalTransient
  \/ Classified
  \/ SendMessage
  \/ Except
  \/ Finally

SpecBudget == InitBudget /\ [][NextBudget]_vars

(* --------------------------- one cycle to its end --------------------- *)
\* The job is registered and its first run is due.  Pages show up to
\* MaxTimelineLen recent entries; the endpoint answers yes or no or the
\* POST raises an exception that is retried or one that is not.
InitLive == Registered(FetchClock, NotKept)

LiveEntries(now) == {OkEntry(now)}

ScrapeLive == Scrape(LiveEntries(clock), MaxTimelineLen)

LiveOutcomes == Answers \cup {Raise("ConnectError"), Raise("ReadError")}

IsBuySignalLive == Post(LiveOutcomes)

\* A step of check_influencers after it was called.
CycleStep ==
  \/ LoopHeader
  \/ ScrapeLive
  \/ IsBuySignalProbe
  \/ IsBuySignalLive
  \/ Classified
  \/ SendMessage
  \/ Except
  \/ Finally

NextLive ==
  \/ StartCycle
  \/ CycleStep

\* Every call the cycle waits for returns or raises: a cycle that can take
\* a step takes one.
SpecLive == InitLive /\ [][NextLive]_vars /\ WF_vars(CycleStep)

TypeOK ==
  /\ pc \in {"idle", "next", "fetch", "classify", "retry", "post",
             "classified", "send", "except", "finally"}
  /\ scraper \in {"none", "open", "closed"}
  /\ acct \in 0..NumAccounts
  /\ item \in 0..PageLimit
  /\ attempt_number \in 0..StopAfterAttempt
  /\ Len(tweets) <= PageLimit

(* ============================ properties ============================== *)
\* The elements get_recent_tweets looks at: the first PageLimit of the page.
Seen == SubSeq(timeline, 1, Min(Len(timeline), PageLimit))

\* Entries whose reading raises what the per-entry handler does not catch.
Aborts(e) == e.kind \in {"no_marker", "no_attr", "stale"}

Aborted == \E k \in 1..Len(Seen) : Aborts(Seen[k])

\* The entries read before the first such entry (all of Seen if none).
BeforeAbort ==
  IF Aborted
  THEN LET first == CHOOSE k \in 1..Len(Seen) :
                      Aborts(Seen[k]) /\ \A m \in 1..(k - 1) : ~Aborts(Seen[m])
       IN  SubSeq(Seen, 1, first - 1)
  ELSE Seen

\* The well-formed entries of s posted after the cutoff, as items.
Items(s) ==
  LET good == SelectSeq(s, LAMBDA e : e.kind = "ok" /\ e.time > cutoff_time) IN
  [k \in 1..Len(good) |-> [id |-> good[k].id, handle |-> INFLUENCERS[acct],
                           time |-> good[k].time]]

Scraped == nav \in {"ok", "error"}

InItem == pc \in {"classify", "retry", "post", "classified", "send", "except"}

Alerted(k) == \E m \in 1..Len(sent) : sent[m] = k

\* Number of tweets of this account whose processing is over.
Decided ==
  CASE pc \in {"classify", "retry", "post", "classified", "send"} -> item - 1
    [] pc = "except" -> item
    [] OTHER -> Len(verdicts)

TrueIndices(n) == SelectSeq([k \in 1..n |-> k], LAMBDA k : verdicts[k] = "true")

Transient == {"ConnectError", "TimeoutException"}

AllErrors == {"Scraping error", "Processing error", "Close error"}

\* C1 (as stated): no invocation of check_influencers ever ends with an
\* exception, whatever step failed, acquiring the scraper included.
C1_NeverPropagates == lastExit # "raised"

\* C1 (amended): an invocation ends with an exception only when
\* TwitterScraper() itself raised, before anything was fetched; every
\* invocation that acquired its scraper returns normally.
C1_ReturnsOnceAcquired ==
  /\ lastExit = "raised" => (scraper = "none" /\ pc = "idle" /\ fetchLog = <<>>)
  /\ scraper = "closed" => lastExit = "returned"

C1_Witness == lastExit = "returned" /\ errors = AllErrors

\* C2: a cycle that acquired its scraper calls close exactly once before it
\* ends: never while the cycle runs, once when it has ended, never twice.
C2_CloseExactlyOnce ==
  /\ closeCalls <= 1
  /\ lastExit = "running" => (scraper = "open" /\ closeCalls = 0 /\ pc # "idle")
  /\ lastExit = "returned" => (scraper = "closed" /\ closeCalls = 1 /\ pc = "idle")
  /\ scraper = "open" => lastExit = "running"

C2_Witness ==
  /\ lastExit = "returned"
  /\ closeCalls = 1
  /\ {"Scraping error", "Processing error"} \subseteq errors

\* C3: a tweet whose classification or alert raised does not stop the
\* tweets after it, nor the accounts after it: when the account is done
\* every tweet has a verdict and every true verdict has its alert, and a
\* cycle that reaches its end has fetched every account.
C3_ItemIsolation ==
  /\ item <= Len(tweets)
  /\ pc \in {"classify", "retry", "post"} => Len(verdicts) = item - 1
  /\ pc \in {"classified", "send", "except"} => Len(verdicts) = item
  /\ pc = "next" =>
       /\ Len(verdicts) = Len(tweets)
       /\ \A k \in 1..Len(verdicts) : verdicts[k] = "true" => Alerted(k)
  /\ pc = "finally" => Len(fetchLog) = NumAccounts

C3_Witness ==
  /\ pc = "next"
  /\ Len(tweets) = 2
  /\ verdicts = <<"raised", "true">>
  /\ sent = <<2>>

\* C4: send_message is called exactly once for each tweet classified true
\* and never for a tweet classified false or whose classification raised.
C4_AlertIffTrue == sent = TrueIndices(Decided)

C4_Witness ==
  /\ pc = "next"
  /\ verdicts = <<"true", "false">>
  /\ sent = <<1>>
  /\ "Processing error" \in errors

\* C5: get_recent_tweets is called once per account, in the order of
\* INFLUENCERS, whatever failed on the accounts before.
C5_EveryAccountInOrder ==
  /\ Len(fetchLog) <= NumAccounts
  /\ \A k \in 1..Len(fetchLog) : fetchLog[k] = INFLUENCERS[k]
  /\ pc = "fetch" => Len(fetchLog) = acct - 1
  /\ (InItem \/ pc = "next") => Len(fetchLog) = acct
  /\ (pc = "finally" \/ lastExit = "returned") => fetchLog = INFLUENCERS

C5_Witness ==
  /\ lastExit = "returned"
  /\ fetchLog = INFLUENCERS
  /\ "Scraping error" \in errors

C7_MalformedEntriesSkipped == (nav = "ok" /\ ~Aborted) => tweets = Items(Seen)

C7_Witness ==
  /\ nav = "ok"
  /\ ~Aborted
  /\ Len(Seen) = PageLimit
  /\ Seen[1].kind = "no_element"
  /\ Seen[3].kind = "bad_time"
  /\ Len(tweets) = 3

\* C8: every item returned was posted strictly after the cutoff, which is
\* one hour before the time of the call; an entry at or before the cutoff
\* is not in the result, so it is neither classified nor alerted.
C8_OnlyInsideWindow ==
  /\ \A k \in 1..Len(tweets) : tweets[k].time > cutoff_time
  /\ Scraped => cutoff_time = clock - OneHour
  /\ \A k \in 1..Len(Seen) :
       (Seen[k].kind = "ok" /\ Seen[k].time <= cutoff_time) =>
         \A m \in 1..Len(tweets) : tweets[m].time # Seen[k].time

C8_Witness ==
  /\ pc = "send"
  /\ Len(timeline) = 2
  /\ timeline[1].kind = "ok" /\ timeline[1].time = cutoff_time
  /\ Len(tweets) = 1

\* C9: in every attempt, a failed probe makes the call return False with
\* no POST in that attempt; a POST happens only after a probe that
\* connected.
C9_NoPostWithoutProbe ==
  /\ probe = "failed" =>
       /\ pc = "classified"
       /\ verdicts[item] = "false"
       /\ response = None
       /\ posts = attempt_number - 1
  /\ pc = "post" => probe = "connected"
  /\ response # None => (probe = "connected" /\ posts = attempt_number)

C9_Witness ==
  /\ probe = "failed"
  /\ attempt_number = 2
  /\ posts = 1
  /\ pc = "classified"

\* C10: at most two attempts and two POSTs per call; a second attempt only
\* after a connect failure or timeout of the first, which is always
\* retried; any other exception is not retried; two transient failures end
\* with an exception to the caller; waits lie in [2,15] and do not decrease.
C10_RetryPolicy ==
  /\ attempt_number <= 2
  /\ posts <= 2
  /\ attempt_number = 2 => (Len(raised) >= 1 /\ raised[1] \in Transient)
  /\ (Len(raised) = 1 /\ raised[1] \in Transient /\ attempt_number = 1) => pc = "retry"
  /\ \A k \in 1..Len(raised) :
       raised[k] \notin Transient =>
         (k = Len(raised) /\ pc = "except" /\ verdicts[item] = "raised")
  /\ Len(raised) = 2 => (pc = "except" /\ verdicts[item] = "raised")
  /\ \A k \in 1..Len(backoff) : backoff[k] >= 2 /\ backoff[k] <= 15
  /\ \A k \in 1..Len(backoff) : \A m \in k..Len(backoff) : backoff[k] <= backoff[m]
  /\ \A n \in 1..6 : wait_exponential(n) <= wait_exponential(n + 1)

C10_Witness ==
  /\ raised = <<"ConnectError", "TimeoutException">>
  /\ pc = "except"
  /\ posts = 2
  /\ backoff = <<2>>

\* What client.post gave in the attempt that has just ended.
Responded == response # None /\ response.type = "response"
PostRaised == response # None /\ response.type = "raise"

\* A 200 response whose handling raises: the body is not JSON, or the first
\* element of the list is not a dict with a string generated_text.
Unreadable ==
  /\ Responded
  /\ response.status = 200
  /\ \/ response.body.shape = "not_json"
     \/ /\ response.body.shape = "list"
        /\ Len(response.body.items) >= 1
        /\ response.body.items[1].kind \in {"non_dict", "non_str"}

\* C11: only ConnectError and TimeoutException leave an attempt of
\* is_buy_signal; when client.post raises anything else, or the handling
\* of the response raises, the call returns False.
C11_OnlyTransientPropagates ==
  /\ \A k \in 1..Len(raised) : raised[k] \in Transient
  /\ (PostRaised /\ response.exc \notin Transient) =>
       (pc = "classified" /\ verdicts[item] = "false")
  /\ Unreadable => (pc = "classified" /\ verdicts[item] = "false")

\* A text that is "YES" in any letter case between leading and trailing
\* whitespace, stated without the str methods.
SaysYes(t) ==
  \E a \in 0..Len(t) : \E b \in 0..Len(t) :
    /\ a + 3 + b = Len(t)
    /\ \A k \in 1..a : IsSpace(t[k])
    /\ \A k \in (Len(t) - b + 1)..Len(t) : IsSpace(t[k])
    /\ t[a + 1] \in {"Y", "y"}
    /\ t[a + 2] \in {"E", "e"}
    /\ t[a + 3] \in {"S", "s"}

\* C12: a response makes is_buy_signal return, never raise; it returns
\* True exactly when the status is 200, the body is a non-empty list and
\* the generated_text of its first element, stripped and upper-cased, is
\* "YES"; any other status, an empty list and a non-list body give False.
C12_ResponseReduction ==
  Responded =>
    /\ pc = "classified"
    /\ verdicts[item] \in {"true", "false"}
    /\ verdicts[item] = "true" <=>
         /\ response.status = 200
         /\ response.body.shape = "list"
         /\ Len(response.body.items) >= 1
         /\ response.body.items[1].kind = "text"
         /\ SaysYes(response.body.items[1].text)

C12_Witness ==
  /\ Responded
  /\ response.status = 200
  /\ response.body.items = <<Elem("text", <<" ", "y", "e", "s", " ">>)>>
  /\ verdicts[item] = "true"
  /\ pc = "classified"

\* Tweet k of this account is the one an earlier cycle alerted last.
Remembered(k) ==
  /\ lastAlert.cycle \in {"earlier", "both"}
  /\ lastAlert.handle = tweets[k].handle
  /\ lastAlert.id = tweets[k].id

\* C14: nothing of an earlier cycle is read by a later one.  A cycle starts
\* with nothing fetched and nothing sent; an in-window entry is returned
\* by the scrape and, classified true, alerted, also when an earlier cycle
\* has alerted the same handle and id.
C14_NoMemoryOfAlerts ==
  /\ (pc = "next" /\ acct = 0) =>
       (fetchLog = <<>> /\ tweets = <<>> /\ sent = <<>> /\ closeCalls = 0)
  /\ (nav = "ok" /\ ~Aborted) =>
       \A k \in 1..Len(Seen) :
         (/\ Seen[k].kind = "ok"
          /\ Seen[k].time > clock - OneHour
          /\ lastAlert.cycle \in {"earlier", "both"}
          /\ lastAlert.handle = INFLUENCERS[acct]
          /\ lastAlert.id = Seen[k].id) =>
           \E m \in 1..Len(tweets) : Remembered(m)
  /\ \A k \in 1..Decided :
       (Remembered(k) /\ verdicts[k] = "true") => Alerted(k)

\* The same handle and id has been alerted in an earlier cycle and again
\* in this one.
C14_Witness ==
  /\ lastAlert.cycle = "both"
  /\ pc = "next"
  /\ Alerted(1)
  /\ tweets[1].id = lastAlert.id
  /\ tweets[1].time > cutoff_time

\* s can be obtained from the entries t by leaving entries out.
RECURSIVE IsSubsequence(_, _)
IsSubsequence(s, t) ==
  IF s = <<>> THEN TRUE
  ELSE IF t = <<>> THEN FALSE
  ELSE IF Head(t).kind = "ok" /\ Head(t).id = Head(s).id
            /\ Head(t).time = Head(s).time
       THEN IsSubsequence(Tail(s), Tail(t))
       ELSE IsSubsequence(s, Tail(t))

\* C15: the list returned has at most five tweets and is made of entries
\* among the first five of the page, in page order; an entry after the
\* fifth is not returned, whatever happened to the first five.
C15_SubsequenceOfFirstFive ==
  /\ Len(tweets) <= PageLimit
  /\ IsSubsequence(tweets, Seen)
  /\ \A k \in (PageLimit + 1)..Len(timeline) :
       (\A j \in 1..PageLimit : timeline[j].id # timeline[k].id) =>
         \A m \in 1..Len(tweets) : tweets[m].id # timeline[k].id

\* The sixth entry is the only one posted at its time and lies inside the
\* window; of the first five one was skipped, one was filtered out and two
\* are returned in page order.
C15_Witness ==
  /\ Len(timeline) = 6
  /\ timeline[6] = OkEntry(clock)
  /\ timeline[1].kind = "no_element"
  /\ timeline[2] = OkEntry(cutoff_time)
  /\ timeline[3] = OkEntry(clock - 1)
  /\ timeline[5] = OkEntry(clock - 1)
  /\ timeline[4].kind = "no_element"
  /\ Len(tweets) = 2

\* C16: an entry whose href has no "/status/" part, or whose href or title
\* attribute is absent, is skipped on its own: when the driver does not
\* fail, the result is every well-formed in-window entry among the first
\* five, those after such an entry included.
C16_MarkerlessEntrySkipped ==
  (nav = "ok" /\ \A k \in 1..Len(Seen) : Seen[k].kind # "stale") =>
    tweets = Items(Seen)

\* C17: a cycle makes at most one fetch per account, classifies at most
\* five tweets per account and makes at most two attempts and two POSTs
\* per tweet; when every call it waits for returns or raises, a cycle
\* that has acquired its scraper releases it and returns.
C17_CycleTerminates ==
  /\ [](/\ Len(fetchLog) <= NumAccounts
        /\ Len(tweets) <= PageLimit
        /\ item <= Len(tweets)
        /\ Len(verdicts) <= Len(tweets)
        /\ attempt_number <= StopAfterAttempt
        /\ posts <= StopAfterAttempt)
  /\ (lastExit = "running") ~>
       (lastExit = "returned" /\ scraper = "closed" /\ pc = "idle")

\* A cycle has ended in which a page load, the processing of a tweet and
\* the quit of the driver failed.
C17_Witness ==
  /\ lastExit = "returned"
  /\ scraper = "closed"
  /\ pc = "idle"
  /\ Len(fetchLog) = NumAccounts
  /\ AllErrors \subseteq errors

InCycle == pc \notin {"idle"}

\* C18: while a cycle runs, its scraper is open on a session that this
\* cycle's TwitterScraper() created and that close was not called on; the
\* session stays the same until the finally block, which quits it; every
\* fetch is made on that session, none after its close.
C18_SessionWithinCycle ==
  /\ [](InCycle => (scraper = "open" /\ Live(driver)))
  /\ [](pc = "idle" => ~Live(driver))
  /\ [][(~InCycle /\ InCycle') => (driver'.id = driver.id + 1 /\ Live(driver'))]_vars
  /\ [][(InCycle /\ InCycle') => driver' = driver]_vars
  /\ [][(InCycle /\ ~InCycle') => (driver'.quit = driver.id /\ pc = "finally")]_vars
  /\ [][Len(fetchLog') > Len(fetchLog) =>
          (InCycle /\ Live(driver) /\ driver' = driver /\ scraper' = "open")]_vars

\* A second cycle is fetching on a second session after the first session
\* was quit.
C18_Witness ==
  /\ driver = [id |-> 2, quit |-> 1]
  /\ pc = "classify"
  /\ Len(fetchLog) = NumAccounts
  /\ nav = "ok"

\* C19: every call of is_buy_signal has its own two attempts.  A call
\* starts with nothing counted, failed or waited for, and its first
\* attempt is attempt 1, whatever the calls before it did; a call that
\* ends with a connect failure or timeout has made both of its attempts.
C19_BudgetPerCall ==
  /\ [](pc = "classify" =>
          (attempt_number = 0 /\ posts = 0 /\ raised = <<>> /\ backoff = <<>>))
  /\ [][(pc = "classify" /\ pc' # "classify") => attempt_number' = 1]_vars
  /\ [](pc = "retry" => attempt_number < StopAfterAttempt)
  /\ []((pc = "except" /\ verdicts[item] = "raised"
           /\ raised[Len(raised)] \in Transient) =>
          (Len(raised) = StopAfterAttempt /\ posts = StopAfterAttempt))

\* The first tweet's call has failed in both attempts and was logged; the
\* second tweet's call is in its second attempt.
C19_Witness ==
  /\ item = 2
  /\ verdicts = <<"raised">>
  /\ "Processing error" \in errors
  /\ pc = "post"
  /\ attempt_number = 2
  /\ raised = <<"TimeoutException">>

\* C20: when one of the three required settings is absent, main returns
\* without registering the job: check_influencers is never called, no
\* browser session is created and send_message is never called.
C20_NothingWithoutSettings ==
  (\E v \in required_vars : ~env[v]) =>
    /\ app \in {"init", "exited"}
    /\ pc = "idle"
    /\ lastExit = "none"
    /\ scraper = "none"
    /\ driver = NoDriver
    /\ fetchLog = <<>>
    /\ sent = <<>>

\* main has returned; only the inference API token was absent.
C20_Witness ==
  /\ app = "exited"
  /\ env = [v \in required_vars |-> v # "HF_API_TOKEN"]

====
